---- MODULE Spec2Model ----
(***************************************************************************)
(* A model of src/crawl.py: the WebCrawler class (link extraction, text     *)
(* extraction and the recursive traversal of _crawl_url).                   *)
(*                                                                          *)
(* Strings are sequences of chunks: a Python str is modelled by the tuple   *)
(* of the chunks it is the concatenation of, written in a fixed chunk       *)
(* alphabet in which a string has one decomposition.  URL delimiters        *)
(* ("//", "/", "?", "#"), the scheme with its colon ("http:"), a file       *)
(* extension (".pdf") and a port (":8080") are chunks of their own, so that *)
(* prefix, suffix and substring tests are tests on chunk positions.         *)
(***************************************************************************)
EXTENDS Integers, Sequences, FiniteSets, TLC

(***************************************************************************)
(* Bounds of the model.                                                     *)
(***************************************************************************)
\* the number of pages the modelled site serves (p1 .. pNumPages)
NumPages == 3

(***************************************************************************)
(* Helpers.                                                                 *)
(***************************************************************************)
\* F(v), with v evaluated once (a local variable assigned once and read many
\* times; a bound variable holds a value, a definition is expanded at each
\* use)
Let(v, F(_)) == CHOOSE r \in {F(x) : x \in {v}} : TRUE

\* the first position of s holding a member of S, Len(s) + 1 when none
FirstIn(s, S) ==
  IF \E i \in 1..Len(s) : s[i] \in S
  THEN CHOOSE i \in 1..Len(s) : s[i] \in S /\ \A j \in 1..(i - 1) : s[j] \notin S
  ELSE Len(s) + 1

\* the last position of s holding a member of S, 0 when none
LastIn(s, S) ==
  IF \E i \in 1..Len(s) : s[i] \in S
  THEN CHOOSE i \in 1..Len(s) : s[i] \in S /\ \A j \in (i + 1)..Len(s) : s[j] \notin S
  ELSE 0

\* s[from..] (empty when from is past the end)
From(s, from) == SubSeq(s, from, Len(s))

\* pat occurs in s as a contiguous run of chunks (Python: pat in s)
Contains(s, pat) ==
  \E i \in 0..(Len(s) - Len(pat)) : SubSeq(s, i + 1, i + Len(pat)) = pat

\* the members of a sequence
Range(s) == {s[i] : i \in 1..Len(s)}

\* s.partition(sep): the part before the first sep and the part after it
Partition(s, sep) ==
  Let(FirstIn(s, {sep}), LAMBDA n : <<SubSeq(s, 1, n - 1), From(s, n + 1)>>)

(***************************************************************************)
(* urllib.parse: urlparse, urlunparse and urljoin on chunked strings.       *)
(***************************************************************************)
Schemes == {"http:", "https:", "mailto:"}
\* urllib's uses_relative / uses_netloc, restricted to the schemes above
UsesRelative == {"http:", "https:", ""}

\* the scheme of a URL and what follows it
SplitScheme(url) ==
  IF Len(url) > 0 /\ url[1] \in Schemes THEN <<url[1], Tail(url)>> ELSE <<"", url>>

\* the authority following "//", up to the first "/", "?" or "#", and what
\* follows it
SplitNetloc(rest) ==
  IF Len(rest) > 0 /\ rest[1] = "//"
  THEN Let(FirstIn(Tail(rest), {"/", "?", "#"}),
           LAMBDA n : <<SubSeq(Tail(rest), 1, n - 1), From(Tail(rest), n)>>)
  ELSE <<<<>>, rest>>

urlparse(url) ==
  Let(SplitScheme(url), LAMBDA s :
  Let(SplitNetloc(s[2]), LAMBDA a :
  Let(Partition(a[2], "#"), LAMBDA f :
  Let(Partition(f[1], "?"), LAMBDA q :
    [scheme   |-> s[1],
     netloc   |-> a[1],
     path     |-> q[1],
     query    |-> q[2],
     fragment |-> f[2]]))))

urlunparse(p) ==
  (IF p.scheme = "" THEN <<>> ELSE <<p.scheme>>)
  \o (IF p.netloc = <<>> THEN <<>> ELSE <<"//">> \o p.netloc)
  \o p.path
  \o (IF p.query = <<>> THEN <<>> ELSE <<"?">> \o p.query)
  \o (IF p.fragment = <<>> THEN <<>> ELSE <<"#">> \o p.fragment)

\* the reference url resolved against the parsed base b, u being url parsed
\* with the scheme of the base as its default
Resolve(b, u, url) ==
  IF u.scheme # b.scheme \/ u.scheme \notin UsesRelative THEN url
  ELSE IF u.netloc # <<>> THEN urlunparse(u)
  ELSE IF u.path = <<>>
    THEN urlunparse([u EXCEPT !.netloc = b.netloc,
                              !.path = b.path,
                              !.query = IF u.query = <<>> THEN b.query ELSE u.query])
  ELSE IF u.path[1] = "/"
    THEN urlunparse([u EXCEPT !.netloc = b.netloc])
  ELSE Let(SubSeq(b.path, 1, LastIn(b.path, {"/"})), LAMBDA dir :
         urlunparse([u EXCEPT !.netloc = b.netloc,
                              !.path = (IF dir = <<>> THEN <<"/">> ELSE dir) \o u.path]))

\* urljoin(base, url): RFC 3986 reference resolution as urllib does it
\* (dot segments are not in the chunk alphabet)
urljoin(base, url) ==
  IF base = <<>> THEN url
  ELSE IF url = <<>> THEN base
  ELSE Let(urlparse(base), LAMBDA b :
       Let(urlparse(url), LAMBDA u0 :
         Resolve(b, [u0 EXCEPT !.scheme = IF u0.scheme = "" THEN b.scheme
                                                           ELSE u0.scheme], url)))

(***************************************************************************)
(* Text helpers (str.split, str.join, str.lower on chunked strings).        *)
(***************************************************************************)
\* the whitespace chunks
WS == {" ", "\n"}

\* str.lower() on one chunk; the chunks with upper-case letters are listed
LowerChunk(c) ==
  CASE c = "Nav"  -> "nav"
    [] c = "Menu" -> "menu"
    [] c = "Skip" -> "skip"
    [] c = "Footer" -> "footer"
    [] c = ".PDF" -> ".pdf"
    [] OTHER -> c

Lower(s) == [i \in 1..Len(s) |-> LowerChunk(s[i])]

\* str.split(): the maximal runs of non-whitespace chunks, each from the
\* place it starts at to the chunk before the next whitespace
Words(str) ==
  Let(str, LAMBDA s :
  Let({i \in 1..Len(s) : s[i] \notin WS /\ (i = 1 \/ s[i - 1] \in WS)}, LAMBDA starts :
    [k \in 1..Cardinality(starts) |->
       Let(CHOOSE i \in starts : Cardinality({j \in starts : j <= i}) = k, LAMBDA b :
         SubSeq(s, b, b + FirstIn(From(s, b), WS) - 2))]))

RECURSIVE Join(_, _)
\* sep.join(parts): the two halves of parts joined, with sep between them
Join(strs, sep) ==
  Let(strs, LAMBDA parts :
    IF parts = <<>> THEN <<>>
    ELSE IF Len(parts) = 1 THEN parts[1]
    ELSE Let(Len(parts) \div 2, LAMBDA h :
           Join(SubSeq(parts, 1, h), sep) \o sep
             \o Join(SubSeq(parts, h + 1, Len(parts)), sep)))

\* str.split(sep) for a one-chunk separator: the pieces between one
\* occurrence of sep (or the start) and the next (or the end)
Split(str, sep) ==
  Let(str, LAMBDA s :
  Let({0} \cup {i \in 1..Len(s) : s[i] = sep} \cup {Len(s) + 1}, LAMBDA cuts :
    [k \in 1..(Cardinality(cuts) - 1) |->
       Let(CHOOSE i \in cuts : Cardinality({j \in cuts : j < i}) = k - 1, LAMBDA a :
       Let(CHOOSE i \in cuts : Cardinality({j \in cuts : j < i}) = k, LAMBDA b :
         SubSeq(s, a + 1, b - 1)))]))

\* str.strip()
Strip(s) ==
  Let({i \in 1..Len(s) : s[i] \notin WS}, LAMBDA keep :
    IF keep = {} THEN <<>>
    ELSE SubSeq(s, CHOOSE i \in keep : \A j \in keep : i <= j,
                   CHOOSE i \in keep : \A j \in keep : i >= j))

(***************************************************************************)
(* The document tree.  A soup is [nodes, gone]: nodes is the sequence of    *)
(* the page's elements in document order, each with its tag, class list,    *)
(* id, href, the text it holds and the index of its parent (0: the soup     *)
(* object itself); gone is the set of elements decompose() has removed.     *)
(* An absent attribute and an empty one are both <<>>.                      *)
(***************************************************************************)
Node(tag, class, id, href, text, parent) ==
  [tag |-> tag, class |-> class, id |-> id, href |-> href, text |-> text,
   parent |-> parent]

\* BeautifulSoup(response.text, 'html.parser')
BeautifulSoup(nodes) == [nodes |-> nodes, gone |-> {}]

RECURSIVE AncestorsOrSelf(_, _)
AncestorsOrSelf(nodes, node) ==
  Let(node, LAMBDA n :
    IF n = 0 THEN {} ELSE {n} \cup AncestorsOrSelf(nodes, nodes[n].parent))

\* the elements still in the tree
Live(soup) == {n \in 1..Len(soup.nodes) : n \notin soup.gone}

\* the elements of hits leaving the tree without their subtrees
DecomposeShallow(soup, hits) == [soup EXCEPT !.gone = soup.gone \cup hits]

\* element.decompose() for every element of hits: the element and its subtree
Decompose(soup, hits) ==
  [soup EXCEPT !.gone = soup.gone \cup
     {n \in 1..Len(soup.nodes) : AncestorsOrSelf(soup.nodes, n) \cap hits # {}}]

(***************************************************************************)
(* WebCrawler.__init__: nav_patterns.                                       *)
(***************************************************************************)
NavTags == {"nav", "header", "footer"}
NavClasses == {<<"nav", "igation">>, <<"nav">>, <<"nav", "bar">>, <<"menu">>,
               <<"header">>, <<"footer">>, <<"bottom">>}
NavIds == NavClasses
FuzzyPatterns == {<<"nav">>, <<"menu">>, <<"header">>, <<"footer">>}

(***************************************************************************)
(* WebCrawler.is_navigation_element, for an element still in the tree.      *)
(***************************************************************************)
is_navigation_element(element) ==
  \/ element.tag \in NavTags
  \/ Let({Lower(c) : c \in Range(element.class)}, LAMBDA element_classes :
       \E pattern \in NavClasses : pattern \in element_classes)
  \/ Let(Lower(element.id), LAMBDA element_id :
       \E pattern \in NavIds : Contains(element_id, pattern))
  \/ \E value \in {Lower(Join(element.class, <<" ">>)), Lower(element.id)} :
       \E pattern \in FuzzyPatterns : Contains(value, pattern)

(***************************************************************************)
(* WebCrawler.extract_text: the text returned and the soup as the call      *)
(* leaves it (the caller goes on to use the same soup object).              *)
(***************************************************************************)
StrippedTags == {"script", "style", "head", "noscript", "iframe"}
ContentTags == {"main", "article"}
ContentClassPatterns == {<<"content">>, <<"main">>, <<"article">>}
BannedInLine == {<<"menu">>, <<"nav", "igation">>,
                 <<"skip", " ", "to", " ", "content">>}
\* a line is kept when it has more than MinTokens tokens
MinTokens == 3

\* lines 92-94: soup([...]) and decompose
StripTags(soup) ==
  Let({n \in Live(soup) : soup.nodes[n].tag \in StrippedTags},
      LAMBDA hits : Decompose(soup, hits))

\* the loop of lines 97-99 ended after the first element it decomposes
StripNavigationFirst(soup) ==
  Let({n \in Live(soup) : is_navigation_element(soup.nodes[n])}, LAMBDA hits :
    Decompose(soup, {n \in hits : \A m \in hits : n <= m}))

\* lines 97-99: an element whose ancestor was decomposed earlier in the loop
\* is an emptied object, which is_navigation_element classifies False
StripNavigation(soup) ==
  Let({n \in Live(soup) : is_navigation_element(soup.nodes[n])},
      LAMBDA hits : Decompose(soup, hits))

\* the smallest member of a non-empty set of indices
MinOf(S) == CHOOSE n \in S : \A m \in S : n <= m

\* line 104: the element found, 0 when none
FindMainContent(soup) ==
  Let({n \in Live(soup) : soup.nodes[n].tag \in ContentTags}, LAMBDA byTag :
    IF byTag # {} THEN MinOf(byTag)
    ELSE Let({n \in Live(soup) :
                \E c \in Range(soup.nodes[n].class) :
                  \E pat \in ContentClassPatterns : Contains(c, pat)},
             LAMBDA byClass : IF byClass # {} THEN MinOf(byClass) ELSE 0))

RECURSIVE StringsOf(_, _)
\* the texts of the elements of a set, in document order
StringsOf(soup, elements) ==
  Let(elements, LAMBDA inside :
    IF inside = {} THEN <<>>
    ELSE Let(MinOf(inside), LAMBDA n :
           <<soup.nodes[n].text>> \o StringsOf(soup, inside \ {n})))

\* content.get_text(separator=' '), content = 0 being the soup
get_text(soup, content) ==
  Join(StringsOf(soup, {n \in Live(soup) :
                          (content = 0 \/ content \in AncestorsOrSelf(soup.nodes, n))
                          /\ soup.nodes[n].text # <<>>}),
       <<" ">>)

\* lines 126-127 left out: a line is kept by its number of tokens alone
KeepLineAnyWords(line) == Len(Words(line)) > MinTokens

\* lines 123-127
KeepLine(line) ==
  /\ Len(Words(line)) > MinTokens
  /\ ~ \E nav \in BannedInLine : Contains(Lower(line), nav)

\* lines 115-129
CleanText(text) ==
  IF text = <<>> THEN <<>>
  ELSE Let(Split(Join(Words(text), <<" ">>), "\n"), LAMBDA lines :
         Join(SelectSeq(lines, KeepLine), <<"\n">>))

extract_text(soup) ==
  Let(StripTags(soup), LAMBDA s1 :
  Let(StripNavigation(s1), LAMBDA s2 :
  Let(FindMainContent(s2), LAMBDA main_content :
  Let(get_text(s2, main_content), LAMBDA text :
    [text |-> CleanText(text), soup |-> s2]))))

(***************************************************************************)
(* WebCrawler.is_valid_url and WebCrawler.get_links.                        *)
(***************************************************************************)
AssetSuffixes == {".pdf", ".jpg", ".png", ".gif"}

\* str.endswith(tuple of suffixes), a suffix being one chunk
EndsWith(s, suffixes) == Len(s) > 0 /\ s[Len(s)] \in suffixes

\* is_valid_url accepting the subdomains of the domain
is_valid_url_subdomains(url, domain, visited) ==
  /\ Let(urlparse(url).netloc, LAMBDA netloc :
       /\ Len(netloc) >= Len(domain)
       /\ From(netloc, Len(netloc) - Len(domain) + 1) = domain)
  /\ url \notin visited
  /\ ~ EndsWith(url, AssetSuffixes)

\* is_valid_url without the test of the suffix
is_valid_url_any_suffix(url, domain, visited) ==
  /\ urlparse(url).netloc = domain
  /\ url \notin visited

\* is_valid_url without the test of visited_urls
is_valid_url_unvisited(url, domain, visited) ==
  /\ urlparse(url).netloc = domain
  /\ ~ EndsWith(url, AssetSuffixes)

is_valid_url(url, domain, visited) ==
  /\ urlparse(url).netloc = domain
  /\ url \notin visited
  /\ ~ EndsWith(url, AssetSuffixes)

get_links(soup, current_url, domain, visited) ==
  {absolute_url \in
     {urljoin(current_url, soup.nodes[n].href) :
        n \in {m \in Live(soup) : soup.nodes[m].tag = "a" /\ soup.nodes[m].href # <<>>}} :
     is_valid_url(absolute_url, domain, visited)}

(***************************************************************************)
(* The site: what requests.get answers for a URL.  The site serves the      *)
(* pages http://a.test/p1 .. pNumPages; each page is of one of the kinds    *)
(* below, its links leading to the next pages of the site (cyclically), so   *)
(* that the link graph has cycles, links back to the seed and pages linked  *)
(* from several pages.                                                      *)
(***************************************************************************)
Names == <<"p1", "p2", "p3", "p4", "p5", "p6">>
Pages == 1..NumPages
PageURL(i) == <<"http:", "//", "a.test", "/", Names[i]>>
Nxt(i)  == (i % NumPages) + 1
Nxt2(i) == ((i + 1) % NumPages) + 1

Kinds == {"article", "chrome", "hub", "odd", "notfound", "down", "choices"}

ArticleText == <<"This", " ", "is", " ", "the", " ", "real", "\n", " ", "article",
                 " ", "body", " ", "text.">>

\* a header, a main region with the text and a relative link, a link home
ArticleNodes(i) ==
  << Node("html", <<>>, <<>>, <<>>, <<>>, 0),
     Node("body", <<>>, <<>>, <<>>, <<"\n">>, 1),
     Node("header", <<>>, <<>>, <<>>, <<"Site", " ", "Nav">>, 2),
     Node("main", <<>>, <<>>, <<>>, <<>>, 2),
     Node("p", <<>>, <<>>, <<>>, ArticleText, 4),
     Node("a", <<>>, <<>>, <<Names[Nxt(i)]>>, <<"next">>, 5),
     Node("a", <<>>, <<>>, <<"/", Names[1]>>, <<"home">>, 2) >>

\* links inside a nav element and inside an element with id "pageFooter",
\* the text in a region of class "main-content"
ChromeNodes(i) ==
  << Node("html", <<>>, <<>>, <<>>, <<>>, 0),
     Node("head", <<>>, <<>>, <<>>, <<>>, 1),
     Node("script", <<>>, <<>>, <<>>, <<"var", " ", "x">>, 2),
     Node("body", <<>>, <<>>, <<>>, <<>>, 1),
     Node("nav", <<>>, <<>>, <<>>, <<"Home", " ", "About">>, 4),
     Node("a", <<>>, <<>>, <<"/", Names[Nxt2(i)]>>, <<"About">>, 5),
     Node("div", << <<"main", "-content">> >>, <<>>, <<>>, <<>>, 4),
     Node("p", <<>>, <<>>, <<>>,
          <<"Four", " ", "token", " ", "line", " ", "here", " ", "now">>, 7),
     Node("div", <<>>, <<"page", "Footer">>, <<>>, <<"Imprint">>, 4),
     Node("a", <<>>, <<>>, PageURL(Nxt(i)), <<"more">>, 9) >>

\* links only: to two pages, to assets, and an anchor without href
HubNodes(i) ==
  << Node("html", <<>>, <<>>, <<>>, <<>>, 0),
     Node("body", <<>>, <<>>, <<>>, <<>>, 1),
     Node("a", <<>>, <<>>, <<Names[Nxt(i)]>>, <<"Click", " ", "here">>, 2),
     Node("a", <<>>, <<>>, <<"/", Names[Nxt2(i)]>>, <<>>, 2),
     Node("a", <<>>, <<>>, <<"/", "file", ".pdf">>, <<>>, 2),
     Node("a", <<>>, <<>>, <<"/", "file", ".pdf", "?", "d=1">>, <<>>, 2),
     Node("a", <<>>, <<>>, <<"img", ".gif">>, <<>>, 2),
     Node("a", <<>>, <<>>, <<>>, <<"top">>, 2) >>

\* links to other hosts in several spellings, a link to the page itself
OddNodes(i) ==
  << Node("html", <<>>, <<>>, <<>>, <<>>, 0),
     Node("body", <<>>, <<>>, <<>>, <<"Skip", " ", "to", " ", "content", " ", "now">>, 1),
     Node("a", <<>>, <<>>, <<"http:", "//", "b.test", "/", Names[1]>>, <<>>, 2),
     Node("a", <<>>, <<>>, <<"//", "b.test", "/", Names[1]>>, <<>>, 2),
     Node("a", <<>>, <<>>, <<"http:", "//", "sub.", "a.test", "/", Names[1]>>, <<>>, 2),
     Node("a", <<>>, <<>>, <<"http:", "//", "a.test", "@", "b.test", "/", Names[1]>>, <<>>, 2),
     Node("a", <<>>, <<>>, <<"http:", "//", "a.test", ":8080", "/", Names[1]>>, <<>>, 2),
     Node("a", <<>>, <<>>, <<"mailto:", "x", "@", "a.test">>, <<>>, 2),
     Node("a", <<>>, <<>>, <<Names[i]>>, <<>>, 2),
     Node("a", <<>>, <<>>, <<"/", Names[Nxt(i)]>>, <<>>, 2) >>

\* the body of an error page or of a 300 (Multiple Choices) answer: text and a link
PlainNodes(i) ==
  << Node("html", <<>>, <<>>, <<>>, <<>>, 0),
     Node("body", <<>>, <<>>, <<>>,
          <<"The", " ", "page", " ", "you", " ", "asked", " ", "for">>, 1),
     Node("a", <<>>, <<>>, <<"/", Names[Nxt(i)]>>, <<"next">>, 2) >>

\* what the site answers for page i of kind k: fail is requests.get raising
\* (connection error, timeout), status_code the status of the answer
Page(k, i) ==
  CASE k = "article"     -> [fail |-> FALSE, status_code |-> 200, nodes |-> ArticleNodes(i)]
    [] k = "chrome"      -> [fail |-> FALSE, status_code |-> 200, nodes |-> ChromeNodes(i)]
    [] k = "hub"         -> [fail |-> FALSE, status_code |-> 200, nodes |-> HubNodes(i)]
    [] k = "odd"         -> [fail |-> FALSE, status_code |-> 200, nodes |-> OddNodes(i)]
    [] k = "notfound"    -> [fail |-> FALSE, status_code |-> 404, nodes |-> PlainNodes(i)]
    [] k = "down"        -> [fail |-> TRUE,  status_code |-> 0,   nodes |-> <<>>]
    [] k = "choices" -> [fail |-> FALSE, status_code |-> 300, nodes |-> PlainNodes(i)]

\* the answer for a URL: a page of the site (whatever the query or fragment),
\* 404 for any other path of the host, no connection for another host
Serve(st, url) ==
  Let(urlparse(url), LAMBDA u :
    IF u.netloc # <<"a.test">> \/ u.scheme # "http:"
    THEN [fail |-> TRUE, status_code |-> 0, nodes |-> <<>>]
    ELSE IF \E i \in Pages : u.path = <<"/", Names[i]>>
    THEN Let(CHOOSE j \in Pages : u.path = <<"/", Names[j]>>,
             LAMBDA i : Page(st[i], i))
    ELSE [fail |-> FALSE, status_code |-> 404, nodes |-> <<>>])

(***************************************************************************)
(* The crawler's state.                                                     *)
(*   site          the kind of each page of the site (fixed during a run)   *)
(*   pc            where crawl() is: "init", "crawling", "done", "failed"   *)
(*   stack         the call stack of _crawl_url, innermost call last; a     *)
(*                 frame is at its entry ("call") or in its for loop        *)
(*                 ("loop"), links being the links the loop has yet to take *)
(*   visited_urls  self.visited_urls                                        *)
(*   file          the contents of the output file                          *)
(*   log           the messages given to self.logger, in order              *)
(*   fetches       the URLs given to requests.get, in order                 *)
(*   parsed        the URLs whose body was given to BeautifulSoup           *)
(*   harvested     the calls of get_links made: the page's URL, the set     *)
(*                 returned and visited_urls at the call                    *)
(* and, for extract_text called on its own (outside a crawl):               *)
(*   tree          the soup object extract_text is called on                *)
(*   texts         the strings the calls of extract_text on tree returned   *)
(***************************************************************************)
VARIABLES site, pc, stack, visited_urls, file, log, fetches, parsed, harvested,
          tree, texts

vars == <<site, pc, stack, visited_urls, file, log, fetches, parsed, harvested,
          tree, texts>>

\* WebCrawler.__init__
base_url == PageURL(1)
domain == urlparse(base_url).netloc

Init ==
  /\ site \in [Pages -> Kinds]
  /\ pc = "init"
  /\ stack = <<>>
  /\ visited_urls = {}
  /\ file = <<>>
  /\ log = <<>>
  /\ fetches = <<>>
  /\ parsed = {}
  /\ harvested = {}
  /\ tree = BeautifulSoup(<<>>)
  /\ texts = <<>>

\* a frame that follows links for the seed only
FrameShallow(url, phase, links) ==
  [url |-> url, phase |-> phase, links |-> IF url = base_url THEN links ELSE {}]

\* a frame of _crawl_url: its url, where it is, the links its loop has left
Frame(url, phase, links) == [url |-> url, phase |-> phase, links |-> links]
Top == stack[Len(stack)]
Pop(stk) == SubSeq(stk, 1, Len(stk) - 1)

LogEntry(msg, url, why, n) == [msg |-> msg, url |-> url, why |-> why, n |-> n]
Crawling(url) == LogEntry("Crawling", url, "", 0)
ErrorProcessing(url, why) == LogEntry("Error processing", url, why, 0)

\* line 157 left out: no call returns early
NeverVisited(url, visited) == FALSE

\* line 157: the membership test at the entry of _crawl_url
AlreadyVisited(url, visited) == url \in visited

\* raise_for_status raising for 5xx only
raise_for_status_5xx(status_code) == 500 <= status_code /\ status_code < 600

\* response.raise_for_status(): HTTPError for a 4xx or 5xx status
raise_for_status(status_code) == 400 <= status_code /\ status_code < 600

\* line 174 left out: the block is written whatever the text
AlwaysHasContent(text) == TRUE

\* line 174: if text.strip()
HasContent(text) == Strip(text) # <<>>

\* the separator line naming the seed whatever the page
HeaderOfSeed(url) == <<"\n\n=== Content from: ">> \o base_url \o <<" ===\n">>

\* line 175: the separator line written before a page's text
Header(url) == <<"\n\n=== Content from: ">> \o url \o <<" ===\n">>

\* the exception re-raised to the caller, whose loop it ends
Uncaught(stk) == Pop(Pop(stk))

\* lines 183-184: the exception is logged and _crawl_url returns to its caller
Caught(stk) == Pop(stk)

\* a loop that does not advance
RemainingStuck(links, link) == links

\* line 180: the for loop goes on with the links it has not taken
Remaining(links, link) == links \ {link}

(***************************************************************************)
(* crawl(): lines 148-153.                                                  *)
(***************************************************************************)
\* open() succeeds, the file is truncated and _crawl_url(base_url) is called
Open ==
  /\ pc = "init"
  /\ pc' = "crawling"
  /\ file' = <<>>
  /\ stack' = <<Frame(base_url, "call", {})>>
  /\ UNCHANGED <<site, visited_urls, log, fetches, parsed, harvested, tree, texts>>

\* open() raises: "Crawling failed"
OpenFail ==
  /\ pc = "init"
  /\ pc' = "failed"
  /\ log' = Append(log, LogEntry("Crawling failed", <<>>, "open", 0))
  /\ UNCHANGED <<site, stack, visited_urls, file, fetches, parsed, harvested, tree, texts>>

\* _crawl_url(base_url) has returned and the file closes: the summary
Finish ==
  /\ pc = "crawling" /\ stack = <<>>
  /\ pc' = "done"
  /\ log' = Append(log, LogEntry("Crawling completed", <<>>, "",
                                 Cardinality(visited_urls)))
  /\ UNCHANGED <<site, stack, visited_urls, file, fetches, parsed, harvested, tree, texts>>

\* closing the file raises (the buffered output cannot be flushed)
CloseFail ==
  /\ pc = "crawling" /\ stack = <<>>
  /\ pc' = "failed"
  /\ log' = Append(log, LogEntry("Crawling failed", <<>>, "close", 0))
  /\ UNCHANGED <<site, stack, visited_urls, file, fetches, parsed, harvested, tree, texts>>

(***************************************************************************)
(* _crawl_url(url, file): lines 155-184.                                    *)
(***************************************************************************)
AtCall == pc = "crawling" /\ stack # <<>> /\ Top.phase = "call"
AtLoop == pc = "crawling" /\ stack # <<>> /\ Top.phase = "loop"

\* lines 157-158: the URL is in visited_urls, return
Skip ==
  /\ AtCall
  /\ AlreadyVisited(Top.url, visited_urls)
  /\ stack' = Pop(stack)
  /\ UNCHANGED <<site, pc, visited_urls, file, log, fetches, parsed, harvested, tree, texts>>

\* lines 160-169, 183-184: requests.get raises, or raise_for_status does
FetchFail ==
  /\ AtCall
  /\ ~ AlreadyVisited(Top.url, visited_urls)
  /\ \E url \in {Top.url} : \E response \in {Serve(site, url)} :
       /\ response.fail \/ raise_for_status(response.status_code)
       /\ visited_urls' = visited_urls \cup {url}
       /\ fetches' = Append(fetches, url)
       /\ log' = log \o <<Crawling(url),
                          ErrorProcessing(url, IF response.fail THEN "transport"
                                                                 ELSE "http")>>
       /\ stack' = Caught(stack)
  /\ UNCHANGED <<site, pc, file, parsed, harvested, tree, texts>>

\* lines 160-181: the page is fetched and parsed, its text written when it
\* has any, its links collected; the frame enters its for loop
Process ==
  /\ AtCall
  /\ ~ AlreadyVisited(Top.url, visited_urls)
  /\ \E url \in {Top.url} : \E response \in {Serve(site, url)} :
       /\ ~ response.fail /\ ~ raise_for_status(response.status_code)
       /\ \E visited \in {visited_urls \cup {url}} :
          \E soup \in {BeautifulSoup(response.nodes)} :
          \E extracted \in {extract_text(soup)} :
          \E links \in {get_links(extracted.soup, url, domain, visited)} :
            /\ visited_urls' = visited
            /\ fetches' = Append(fetches, url)
            /\ log' = Append(log, Crawling(url))
            /\ parsed' = parsed \cup {url}
            /\ file' = IF HasContent(extracted.text)
                       THEN file \o Header(url) \o extracted.text
                       ELSE file
            /\ harvested' = harvested \cup
                              {[url |-> url, links |-> links, seen |-> visited]}
            /\ stack' = Append(Pop(stack), Frame(url, "loop", links))
  /\ UNCHANGED <<site, pc, tree, texts>>

\* lines 160-176, 183-184: the page has text and a file.write raises, the
\* first (nothing of the record is written) or the second (the separator
\* line is written, the text is not)
WriteFail ==
  /\ AtCall
  /\ ~ AlreadyVisited(Top.url, visited_urls)
  /\ \E url \in {Top.url} : \E response \in {Serve(site, url)} :
       /\ ~ response.fail /\ ~ raise_for_status(response.status_code)
       /\ \E extracted \in {extract_text(BeautifulSoup(response.nodes))} :
            /\ HasContent(extracted.text)
            /\ visited_urls' = visited_urls \cup {url}
            /\ fetches' = Append(fetches, url)
            /\ parsed' = parsed \cup {url}
            /\ \/ file' = file
               \/ file' = file \o Header(url)
            /\ log' = log \o <<Crawling(url), ErrorProcessing(url, "sink")>>
            /\ stack' = Caught(stack)
  /\ UNCHANGED <<site, pc, harvested, tree, texts>>

\* lines 180-181: the loop takes a link (a set is iterated in any order) and
\* calls _crawl_url on it
Recurse ==
  /\ AtLoop
  /\ \E link \in Top.links :
       stack' = Append(Append(Pop(stack),
                              Frame(Top.url, "loop", Remaining(Top.links, link))),
                       Frame(link, "call", {}))
  /\ UNCHANGED <<site, pc, visited_urls, file, log, fetches, parsed, harvested, tree, texts>>

\* the loop has taken every link: _crawl_url returns
Return ==
  /\ AtLoop
  /\ Top.links = {}
  /\ stack' = Pop(stack)
  /\ UNCHANGED <<site, pc, visited_urls, file, log, fetches, parsed, harvested, tree, texts>>

Next ==
  \/ Open
  \/ OpenFail
  \/ Skip
  \/ FetchFail
  \/ Process
  \/ WriteFail
  \/ Recurse
  \/ Return
  \/ Finish
  \/ CloseFail

Spec == Init /\ [][Next]_vars

\* the interpreter runs the next statement: a run does not stop half-way
FairSpec == Spec /\ WF_vars(Next)

(***************************************************************************)
(* An AttributeError or TypeError raised inside extract_text (lines 90-133). *)
(***************************************************************************)
\* the soup as extract_text may leave it when an error is raised inside its
\* try block: the loop of lines 92-94 or the loop of lines 97-99 has
\* decomposed the elements it met so far (in document order)
FaultedSoups(soup) ==
  Let({n \in Live(soup) : soup.nodes[n].tag \in StrippedTags}, LAMBDA tags :
  Let(StripTags(soup), LAMBDA s1 :
  Let({n \in Live(s1) : is_navigation_element(s1.nodes[n])}, LAMBDA navs :
    {Decompose(soup, {n \in tags : n <= m}) : m \in 0..Len(soup.nodes)}
    \cup {Decompose(s1, {n \in navs : n <= m}) : m \in 0..Len(soup.nodes)})))

\* the error leaving extract_text and reaching line 183
Propagated(stk, url, links) == Caught(stk)

\* lines 131-133: the error is logged as a warning and "" returned;
\* _crawl_url goes on at line 174 and enters its loop at line 180
Swallowed(stk, url, links) == Append(Pop(stk), Frame(url, "loop", links))

\* lines 160-181 with the error raised inside extract_text: nothing is
\* written (the text is ""), the links of the soup as it was left are
\* collected and the frame enters its for loop
ExtractFault ==
  /\ AtCall
  /\ ~ AlreadyVisited(Top.url, visited_urls)
  /\ \E url \in {Top.url} : \E response \in {Serve(site, url)} :
       /\ ~ response.fail /\ ~ raise_for_status(response.status_code)
       /\ \E visited \in {visited_urls \cup {url}} :
          \E soup \in FaultedSoups(BeautifulSoup(response.nodes)) :
          \E text \in {<<>>} :
          \E links \in {get_links(soup, url, domain, visited)} :
            /\ visited_urls' = visited
            /\ fetches' = Append(fetches, url)
            /\ log' = log \o <<Crawling(url),
                               LogEntry("Error extracting text", <<>>, "extract", 0)>>
            /\ parsed' = parsed \cup {url}
            /\ file' = IF HasContent(text) THEN file \o Header(url) \o text ELSE file
            /\ harvested' = harvested \cup
                              {[url |-> url, links |-> links, seen |-> visited]}
            /\ stack' = Swallowed(stack, url, links)
  /\ UNCHANGED <<site, pc, tree, texts>>

FaultNext == Next \/ ExtractFault

\* the crawl with errors raised inside extract_text
FaultSpec == Init /\ [][FaultNext]_vars

(***************************************************************************)
(* extract_text called on its own: the document is any tree of at most      *)
(* MaxNodes elements built from the shapes and texts below, or the tree of  *)
(* one of the pages of the site; extract_text is called on the soup object  *)
(* up to MaxCalls times.                                                    *)
(***************************************************************************)
\* the number of elements of a generated document
MaxNodes == 3
\* the number of calls of extract_text on one soup object
MaxCalls == 2

\* the elements a generated document is built from, each with the kind of
\* text it holds: plain elements, chrome by its tag, by a class token (in
\* upper case) and by a substring of its id, content regions by their tag and
\* by their class (the pages of the site add scripts, links and deeper trees)
Elements ==
  { [tag |-> "div",    class |-> <<>>, id |-> <<>>, kind |-> "short"],
    [tag |-> "div",    class |-> <<>>, id |-> <<>>, kind |-> "long"],
    [tag |-> "div",    class |-> <<>>, id |-> <<>>, kind |-> "skip"],
    [tag |-> "nav",    class |-> <<>>, id |-> <<>>, kind |-> "long"],
    [tag |-> "div",    class |-> << <<"Nav", "bar">> >>, id |-> <<>>, kind |-> "long"],
    [tag |-> "div",    class |-> <<>>, id |-> <<"page", "Footer">>, kind |-> "short"],
    [tag |-> "main",   class |-> <<>>, id |-> <<>>, kind |-> "none"],
    [tag |-> "div",    class |-> << <<"main", "-content">> >>, id |-> <<>>, kind |-> "short"] }

\* a word naming the element a text belongs to
Marks == <<"w1", "w2", "w3", "w4", "w5">>

\* the text an element holds, by its kind: none, a line of two tokens, a line
\* of four tokens, a line of five tokens with "Skip to content" in it; each
\* begins with the word naming the element
MarkedText(kind, i) ==
  CASE kind = "none"  -> <<>>
    [] kind = "short" -> <<Marks[i], " ", "here", "\n">>
    [] kind = "long"  -> <<Marks[i], " ", "is", " ", "a", " ", "line", "\n">>
    [] kind = "skip"  -> <<Marks[i], " ", "Skip", " ", "to", " ", "content", " ",
                           "now", "\n">>

\* a generated document of n elements: element i is the element of[i] with
\* the element up[i] (0: the document itself) as its parent
Generated(n, of, up) ==
  [i \in 1..n |-> Node(of[i].tag, of[i].class, of[i].id, <<>>,
                        MarkedText(of[i].kind, i), up[i])]

\* the soup is made from any generated document of at most MaxNodes elements
\* (a parent comes before its children) or from a page of the site
ExtractInit ==
  /\ \/ \E n \in 1..MaxNodes :
          \E of \in [1..n -> Elements], up \in [1..n -> 0..(n - 1)] :
            /\ \A i \in 1..n : up[i] < i
            /\ tree = BeautifulSoup(Generated(n, of, up))
     \/ \E k \in Kinds, i \in Pages : tree = BeautifulSoup(Page(k, i).nodes)
  /\ texts = <<>>
  /\ site = [i \in Pages |-> "article"]
  /\ pc = "init"
  /\ stack = <<>>
  /\ visited_urls = {}
  /\ file = <<>>
  /\ log = <<>>
  /\ fetches = <<>>
  /\ parsed = {}
  /\ harvested = {}

\* text = self.extract_text(soup), the soup object being left as the call
\* has changed it
ExtractText ==
  /\ Len(texts) < MaxCalls
  /\ \E extracted \in {extract_text(tree)} :
       /\ tree' = extracted.soup
       /\ texts' = Append(texts, extracted.text)
  /\ UNCHANGED <<site, pc, stack, visited_urls, file, log, fetches, parsed, harvested>>

ExtractNext == ExtractText

ExtractSpec == ExtractInit /\ [][ExtractNext]_vars

(***************************************************************************)
(* Vocabulary of the properties.                                            *)
(***************************************************************************)
RECURSIVE Flatten(_)
\* the concatenation of a sequence of strings
Flatten(ss) == IF ss = <<>> THEN <<>> ELSE Head(ss) \o Flatten(Tail(ss))

\* requests.get(url) answered and raise_for_status() did not raise
FetchSucceeds(url) ==
  LET response == Serve(site, url)
  IN  ~ response.fail /\ ~ (400 <= response.status_code /\ response.status_code < 600)

\* the tree the site serves for url, as parsed
TreeOf(url) == BeautifulSoup(Serve(site, url).nodes)

\* what extract_text gives for each tree the site can serve (and for the
\* tree of an empty body): the text and the soup as it leaves it
Extraction ==
  [nodes \in {Page(k, i).nodes : k \in Kinds, i \in Pages} \cup {<<>>} |->
     extract_text(BeautifulSoup(nodes))]

\* the resolved targets of all the hyperlinks of the page served for url
Hyperlinks(url) ==
  LET nodes == Serve(site, url).nodes
  IN  {urljoin(url, nodes[n].href) :
         n \in {m \in 1..Len(nodes) : nodes[m].tag = "a" /\ nodes[m].href # <<>>}}

\* the host of a URL: its authority without user information and port
HostOf(url) ==
  LET netloc == urlparse(url).netloc
      host   == From(netloc, LastIn(netloc, {"@"}) + 1)
  IN  SelectSeq(host, LAMBDA c : c \notin {":8080", ":80"})

SameDomain(url) == HostOf(url) = HostOf(base_url)
IsAsset(url) == Len(url) > 0 /\ url[Len(url)] \in {".pdf", ".jpg", ".png", ".gif"}

\* the URLs of the "Crawling: <url>" messages, in order: the dispatched URLs
Dispatched ==
  LET at == SelectSeq(log, LAMBDA e : e.msg = "Crawling")
  IN  [i \in 1..Len(at) |-> at[i].url]

\* no open, write or close of the output file has failed
SinkSound == \A i \in 1..Len(log) : log[i].why \notin {"open", "sink", "close"}

\* the messages "Error processing <url>" of the log
ErrorsOf(url) == {i \in 1..Len(log) : log[i].msg = "Error processing" /\ log[i].url = url}

(***************************************************************************)
(* C1                                                                       *)
(***************************************************************************)
\* C1: in one run no URL is given to requests.get twice, whatever the link
\* graph; a URL whose fetch failed is not fetched again either.
C1_FetchedAtMostOnce ==
  \A i, j \in 1..Len(fetches) : fetches[i] = fetches[j] => i = j

\* a finished run in which a URL whose fetch failed was found on two pages,
\* and in which some page links back to the seed
C1_Witness ==
  /\ pc = "done"
  /\ \E u \in Range(fetches) :
       /\ ~ FetchSucceeds(u)
       /\ \E h1, h2 \in harvested : h1.url # h2.url /\ u \in h1.links /\ u \in h2.links
  /\ \E u \in parsed : u # base_url /\ base_url \in Hyperlinks(u)

(***************************************************************************)
(* C2                                                                       *)
(***************************************************************************)
\* the same-domain, non-asset targets of the hyperlinks of a page that is
\* served successfully
Targets(url) ==
  IF FetchSucceeds(url)
  THEN {l \in Hyperlinks(url) : SameDomain(l) /\ ~ IsAsset(l)}
  ELSE {}

RECURSIVE ReachableFrom(_)
ReachableFrom(S) ==
  LET more == S \cup UNION {Targets(u) : u \in S}
  IN  IF more = S THEN S ELSE ReachableFrom(more)

Reachable == ReachableFrom({base_url})

\* C2 (as claimed): when crawl() has finished (the output file sound), the
\* size of visited_urls is the number of distinct same-domain, non-asset URLs
\* reachable from the seed through the hyperlinks of successfully served pages.
C2_VisitedIsReachable ==
  (pc = "done" /\ SinkSound) =>
    Cardinality(visited_urls) = Cardinality(Reachable)

(***************************************************************************)
(* C3                                                                       *)
(***************************************************************************)
\* C3: every URL get_links returns has the host of the seed exactly (a
\* subdomain of it is another host), and no URL of another host is
\* dispatched or fetched.
C3_SameHostOnly ==
  /\ \A h \in harvested : \A l \in h.links : HostOf(l) = HostOf(base_url)
  /\ \A i \in 1..Len(Dispatched) : HostOf(Dispatched[i]) = HostOf(base_url)
  /\ \A i \in 1..Len(fetches) : HostOf(fetches[i]) = HostOf(base_url)

\* a finished run that collected the links of a page linking to another host,
\* to a subdomain of the seed's host and, on the seed's host, to a page
C3_Witness ==
  /\ pc = "done"
  /\ \E h \in harvested :
       /\ \E l \in Hyperlinks(h.url) : HostOf(l) = <<"b.test">>
       /\ \E l \in Hyperlinks(h.url) : HostOf(l) = <<"sub.", "a.test">>
       /\ h.links # {}

(***************************************************************************)
(* C4                                                                       *)
(***************************************************************************)
\* the link the frame at position k of the stack is calling _crawl_url on
Calling(k) ==
  IF k < Len(stack) /\ stack[k + 1].phase = "call" THEN {stack[k + 1].url} ELSE {}

\* C4: a failed fetch of a link is not raised to the caller: the page the
\* link was found on goes on through its links, so every link of a page
\* whose loop is over has been dispatched (is in visited_urls), and a loop
\* under way has dispatched every link it has taken.
C4_SiblingsProcessed ==
  \A h \in harvested :
    LET at == {k \in 1..Len(stack) : stack[k].phase = "loop" /\ stack[k].url = h.url}
    IN  /\ at = {} => h.links \subseteq visited_urls
        /\ \A k \in at :
             (h.links \ stack[k].links) \subseteq (visited_urls \cup Calling(k))

\* a finished run in which the fetch of a link raised a transport error and
\* a sibling link of the same page was dispatched after that
C4_Witness ==
  /\ pc = "done"
  /\ \E h \in harvested : \E bad, sib \in h.links :
       /\ bad # sib
       /\ \E i \in ErrorsOf(bad) :
            /\ log[i].why = "transport"
            /\ \E j \in (i + 1)..Len(log) :
                 log[j].msg = "Crawling" /\ log[j].url = sib

(***************************************************************************)
(* C5                                                                       *)
(***************************************************************************)
\* the cleaned text of the page served for url
TextOf(url) == Extraction[TreeOf(url).nodes].text

\* the block the output holds for a dispatched URL
RecordOf(url) ==
  IF FetchSucceeds(url) /\ Strip(TextOf(url)) # <<>>
  THEN <<"\n\n=== Content from: ">> \o url \o <<" ===\n">> \o TextOf(url)
  ELSE <<>>

\* C5: after a run (no write having failed) the output holds, for each
\* dispatched URL whose fetch succeeded and whose text is not empty after
\* trimming, one block "\n\n=== Content from: <url> ===\n" followed by the
\* cleaned text of its page, and nothing for any other URL.
C5_SinkRecords ==
  (pc = "done" /\ SinkSound) =>
    file = Flatten([i \in 1..Len(Dispatched) |-> RecordOf(Dispatched[i])])

\* a finished run with a page that got a record, a page fetched with no text
\* to write, and a URL whose fetch failed
C5_Witness ==
  /\ pc = "done" /\ SinkSound
  /\ \E u \in Range(fetches) : RecordOf(u) # <<>>
  /\ \E u \in Range(fetches) : FetchSucceeds(u) /\ RecordOf(u) = <<>>
  /\ \E u \in Range(fetches) : ~ FetchSucceeds(u)

(***************************************************************************)
(* C6                                                                       *)
(***************************************************************************)
\* nothing was done with the body of url: it was not parsed, no block was
\* written for it, get_links was not called on it
Untouched(url) ==
  /\ url \notin parsed
  /\ ~ Contains(file, <<"\n\n=== Content from: ">> \o url \o <<" ===\n">>)
  /\ \A h \in harvested : h.url # url

\* C6 (as claimed): a fetched URL whose fetch raised or whose status is
\* outside 2xx (1xx, 3xx, 4xx, 5xx) is Failed: not parsed, no record, no links.
C6_Non2xxFails ==
  \A u \in Range(fetches) :
    LET response == Serve(site, u)
    IN  (response.fail \/ ~ (200 <= response.status_code /\ response.status_code <= 299))
          => Untouched(u)

\* C6 (amended): a fetched URL whose fetch raised or whose status is 4xx or
\* 5xx is Failed: its body is not parsed, no record is written for it and no
\* links are collected from it.  (An answer with another status outside 2xx
\* is handled as a page.)
C6_ErrorStatusFails ==
  \A u \in Range(fetches) :
    LET response == Serve(site, u)
    IN  (response.fail \/ (400 <= response.status_code /\ response.status_code <= 599))
          => Untouched(u)

\* a finished run that fetched a URL answered 404 with a body holding text
\* and a link, and a URL whose fetch raised
C6_Witness ==
  /\ pc = "done"
  /\ \E u \in Range(fetches) :
       /\ Serve(site, u).status_code = 404
       /\ Hyperlinks(u) # {}
       /\ Strip(TextOf(u)) # <<>>
  /\ \E u \in Range(fetches) : Serve(site, u).fail

(***************************************************************************)
(* C7                                                                       *)
(***************************************************************************)
\* C7 (as claimed): once a write of a record to the output has failed the
\* run is aborted: no further URL is fetched, no further record is written.
C7_WriteFailureAborts ==
  \A i \in 1..Len(log) :
    (log[i].msg = "Error processing" /\ log[i].why = "sink")
      => \A j \in (i + 1)..Len(log) : log[j].msg # "Crawling"

(***************************************************************************)
(* C8                                                                       *)
(***************************************************************************)
Terminated == pc \in {"done", "failed"}

\* the summary "Crawling completed. Visited n pages." is the last message
SummaryReported ==
  /\ log # <<>>
  /\ log[Len(log)].msg = "Crawling completed"
  /\ log[Len(log)].n = Cardinality(visited_urls)

\* C8: crawl() terminates on every (finite) site, cycles and self-links
\* included: the recursion is never deeper than the number of URLs visited,
\* the run reaches its end, and it ends with the summary unless the output
\* file failed to open or to close.
C8_Terminates ==
  /\ <>Terminated
  /\ [](Len(stack) <= Cardinality(visited_urls) + 1)
  /\ [](pc = "done" => SummaryReported)
  /\ [](pc = "failed" => ~ SinkSound)

\* a finished run over a site where a page links to itself and a page links
\* back to the seed
C8_Witness ==
  /\ pc = "done" /\ SummaryReported
  /\ \E u \in parsed : \E h \in harvested : h.url = u /\ u \in Hyperlinks(u)
  /\ \E u \in parsed : \E h \in harvested :
       h.url = u /\ u # base_url /\ base_url \in Hyperlinks(u)

(***************************************************************************)
(* C9                                                                       *)
(***************************************************************************)
\* the soup get_links is called on for url: the page's tree as extract_text
\* has left it
SoupAtLinks(url) == Extraction[TreeOf(url).nodes].soup

\* C9 (as claimed): the set get_links returns for a tree, a page URL and the
\* seed's domain does not depend on visited_urls: it is the set returned when
\* nothing is visited.
C9_LinksIgnoreVisited ==
  \A h \in harvested :
    h.links = get_links(SoupAtLinks(h.url), h.url, domain, {})

\* C9 (amended): get_links consults visited_urls and nothing else of the
\* crawl: the set it returns is the set it returns when nothing is visited,
\* less the URLs in visited_urls at the call; it leaves visited_urls as it is.
C9_LinksLessVisited ==
  /\ \A h \in harvested :
       h.links = get_links(SoupAtLinks(h.url), h.url, domain, {}) \ h.seen
  /\ \A h \in harvested : h.seen \subseteq visited_urls

\* get_links was called on a page with a link to a visited URL and a link to
\* a URL not yet visited
C9_Witness ==
  \E h \in harvested :
    /\ get_links(SoupAtLinks(h.url), h.url, domain, {}) \cap h.seen # {}
    /\ h.links # {}

(***************************************************************************)
(* C10                                                                      *)
(***************************************************************************)
\* C10: get_links returns no URL ending in .pdf, .jpg, .png or .gif, and
\* the crawl dispatches no such URL as a discovered link.
C10_NoAssetLinks ==
  /\ \A h \in harvested : \A l \in h.links : ~ IsAsset(l)
  /\ \A i \in 2..Len(Dispatched) : ~ IsAsset(Dispatched[i])

\* a finished run that collected the links of a page with same-domain links
\* ending in .pdf and in .gif
C10_Witness ==
  /\ pc = "done"
  /\ \E h \in harvested :
       /\ \E l \in Hyperlinks(h.url) : SameDomain(l) /\ l[Len(l)] = ".pdf"
       /\ \E l \in Hyperlinks(h.url) : SameDomain(l) /\ l[Len(l)] = ".gif"
       /\ h.links # {}

(***************************************************************************)
(* C11                                                                      *)
(***************************************************************************)
\* the document the soup object was made from
Document == BeautifulSoup(tree.nodes)

\* the elements of the document the classifier marks, with their subtrees
ChromeSubtrees ==
  {n \in 1..Len(tree.nodes) :
     \E a \in AncestorsOrSelf(tree.nodes, n) : is_navigation_element(tree.nodes[a])}

\* a string as it stands in a text whose whitespace was collapsed
Collapsed(s) == Join(Words(s), <<" ">>)

\* C11: the text of an element the classifier marks as chrome (by its tag,
\* a class token or its id), and the text of every element of its subtree,
\* is in no string extract_text returns for the document.
C11_ChromeTextRemoved ==
  \A k \in 1..Len(texts) : \A n \in ChromeSubtrees :
    Words(tree.nodes[n].text) # <<>>
      => ~ Contains(texts[k], Collapsed(tree.nodes[n].text))

\* extract_text returned text for a document with an element marked by a
\* class token or by its id (not by its tag) that holds text and has a child
\* holding text
C11_Witness ==
  /\ Len(texts) >= 1 /\ texts[1] # <<>>
  /\ \E n, m \in ChromeSubtrees :
       /\ tree.nodes[n].tag \notin {"nav", "header", "footer"}
       /\ is_navigation_element(tree.nodes[n])
       /\ tree.nodes[m].parent = n
       /\ Words(tree.nodes[n].text) # <<>>
       /\ Words(tree.nodes[m].text) # <<>>

(***************************************************************************)
(* C12                                                                      *)
(***************************************************************************)
\* a line has more than 3 tokens and none of the three substrings in it,
\* whatever the case of its letters
FilteredLine(line) ==
  /\ Len(Words(line)) > 3
  /\ \A banned \in {<<"menu">>, <<"nav", "igation">>,
                     <<"skip", " ", "to", " ", "content">>} :
       ~ Contains(Lower(line), banned)

\* C12: what extract_text returns is the empty string or lines joined by
\* newlines, each line with more than 3 whitespace-delimited tokens and
\* without 'menu', 'navigation' and 'skip to content' in it (in any case).
C12_LinesFiltered ==
  \A k \in 1..Len(texts) :
    \/ texts[k] = <<>>
    \/ \A line \in Range(Split(texts[k], "\n")) : FilteredLine(line)

\* extract_text returned text for a document that also holds a line of two
\* tokens and a line with "Skip to content" in elements it removed
C12_Witness ==
  /\ Len(texts) >= 1 /\ texts[1] # <<>>
  /\ \E n, m \in tree.gone :
       /\ Len(Words(tree.nodes[n].text)) = 2
       /\ Contains(Lower(tree.nodes[m].text), <<"skip", " ", "to", " ", "content">>)

(***************************************************************************)
(* C13                                                                      *)
(***************************************************************************)
\* the text of the content region chosen for the document, chrome removed
RegionText ==
  LET s2 == StripNavigation(StripTags(Document))
  IN  get_text(s2, FindMainContent(s2))

\* the lines of the region's text, the whitespace of each collapsed
RegionLines ==
  LET lines == Split(RegionText, "\n")
  IN  [i \in 1..Len(lines) |-> Collapsed(lines[i])]

\* C13 (as claimed): extract_text filters the text of the content region
\* line by line: what it returns is the lines of the region that have 4 or
\* more tokens and no banned substring, each kept or dropped on its own.
C13_LineByLine ==
  \A k \in 1..Len(texts) :
    texts[k] = Join(SelectSeq(RegionLines, FilteredLine), <<"\n">>)

(***************************************************************************)
(* C14                                                                      *)
(***************************************************************************)
\* C14: the calls of extract_text on one soup object return the same text:
\* what the first call removed from the tree does not change what the
\* second returns.
C14_SameTextTwice ==
  \A i, j \in 1..Len(texts) : texts[i] = texts[j]

\* extract_text was called twice on a document it returns text for, the
\* first call having removed a script and an element of chrome
C14_Witness ==
  /\ Len(texts) >= 2 /\ texts[1] # <<>>
  /\ \E n, m \in tree.gone :
       /\ tree.nodes[n].tag = "script"
       /\ is_navigation_element(tree.nodes[m])

(***************************************************************************)
(* C15                                                                      *)
(***************************************************************************)
\* the targets of the hyperlinks of the page served for url, wherever in the
\* page they sit, that have the seed's authority and no asset suffix
Candidates(url) ==
  {l \in Hyperlinks(url) : urlparse(l).netloc = domain /\ ~ IsAsset(l)}

\* C15 (as claimed): every hyperlink of a fetched and parsed page with a
\* same-domain, non-asset target not yet visited is enqueued and dispatched,
\* chrome or not the element it sits in: when the crawl has finished (the
\* output file sound) every such target of every such page was dispatched.
C15_AllHyperlinksDispatched ==
  (pc = "done" /\ SinkSound) =>
    \A h \in harvested : Candidates(h.url) \subseteq visited_urls

(***************************************************************************)
(* C16                                                                      *)
(***************************************************************************)
\* the URLs whose extract_text logged "Error extracting text": the warning
\* follows the "Crawling: <url>" message of the call
Faulted ==
  {log[i - 1].url : i \in {j \in 2..Len(log) : log[j].msg = "Error extracting text"}}

\* the links get_links returns, nothing being visited, for page i of kind k
\* after a complete extract_text
LinksLeft ==
  [i \in Pages, k \in Kinds |->
     get_links(Extraction[Page(k, i).nodes].soup, PageURL(i), domain, {})]

\* C16: an error raised inside extract_text is swallowed there: no record
\* is written for the page, the page is not reported as failed ("Error
\* processing"), get_links is still called on the soup (it returns at least
\* the valid links a complete extraction leaves in it that are not visited
\* yet), and the links it returned are dispatched: all of them once the
\* page's loop is over.
C16_ExtractionFaultSwallowed ==
  \A u \in Faulted :
    /\ Let(<<"\n\n=== Content from: ">> \o u \o <<" ===\n">>, LAMBDA sep :
           \A i \in 1..(Len(file) - Len(sep) + 1) :
             file[i] = sep[1] => SubSeq(file, i, i + Len(sep) - 1) # sep)
    /\ ErrorsOf(u) = {}
    /\ \E h \in harvested :
         /\ h.url = u
         /\ \E i \in Pages :
              u = PageURL(i) /\ (LinksLeft[i, site[i]] \ h.seen) \subseteq h.links
         /\ (\A k \in 1..Len(stack) : stack[k].url # u) => h.links \subseteq visited_urls

\* a finished run in which extract_text failed on a page that has text and
\* links, a link of the page being dispatched after that
C16_Witness ==
  /\ pc = "done"
  /\ \E u \in Faulted :
       /\ Strip(TextOf(u)) # <<>>
       /\ \E h \in harvested : \E l \in h.links :
            /\ h.url = u
            /\ \E i, j \in 1..Len(log) :
                 /\ i < j
                 /\ log[i].msg = "Error extracting text" /\ log[i - 1].url = u
                 /\ log[j].msg = "Crawling" /\ log[j].url = l

(***************************************************************************)
(* C17                                                                      *)
(***************************************************************************)
\* the links get_links returned for the page url
HarvestedLinks(url) == UNION {h.links : h \in {g \in harvested : g.url = url}}

RECURSIVE ConsequencesOf(_)
\* the URLs of S and the URLs found from them: the links returned for their
\* pages, the links returned for the pages of these, and so on
ConsequencesOf(S) ==
  LET more == S \cup UNION {HarvestedLinks(u) : u \in S}
  IN  IF more = S THEN S ELSE ConsequencesOf(more)

\* the place of a URL in the sequence of dispatched URLs
DispatchIndex(url) == CHOOSE i \in 1..Len(Dispatched) : Dispatched[i] = url

\* C17: the traversal is depth-first: when the loop of a page P is about to
\* take its next link, every link L it has taken before is dispatched
\* together with everything found from L; only the link whose call is under
\* way may have consequences yet to be dispatched.
C17_DepthFirst ==
  \A k \in 1..Len(stack) :
    stack[k].phase = "loop" =>
      \A L \in HarvestedLinks(stack[k].url) \ stack[k].links :
        \/ k < Len(stack) /\ stack[k + 1].url = L
        \/ ConsequencesOf({L}) \subseteq visited_urls

\* a finished run in which a page had the links L and S, a URL found on the
\* page of L (not S, and S not found from L) was dispatched after L and
\* before S
C17_Witness ==
  /\ pc = "done"
  /\ \E h \in harvested : \E L, S \in h.links : \E c \in HarvestedLinks(L) :
       /\ L # S /\ c # S
       /\ S \notin ConsequencesOf({L})
       /\ {L, c, S} \subseteq Range(Dispatched)
       /\ DispatchIndex(L) < DispatchIndex(c)
       /\ DispatchIndex(c) < DispatchIndex(S)

(***************************************************************************)
(* C18                                                                      *)
(***************************************************************************)
\* the targets of the hyperlinks get_links finds in the soup it is given
\* for url
FoundTargets(url) ==
  LET soup == SoupAtLinks(url)
  IN  {urljoin(url, soup.nodes[n].href) :
         n \in {m \in Live(soup) : soup.nodes[m].tag = "a" /\ soup.nodes[m].href # <<>>}}

\* the path of the URL ends in .pdf, .jpg, .png or .gif
AssetPath(url) ==
  LET path == urlparse(url).path
  IN  Len(path) > 0 /\ path[Len(path)] \in {".pdf", ".jpg", ".png", ".gif"}

\* C18 (as claimed): get_links filters assets by the suffix of the URL's
\* path: of the targets it finds with the seed's authority and not yet
\* visited, it leaves out those whose path ends in .pdf, .jpg, .png or .gif
\* (a query string or a fragment may follow the path) and only those.
C18_AssetByPath ==
  \A h \in harvested : \A l \in FoundTargets(h.url) :
    (urlparse(l).netloc = domain /\ l \notin h.seen)
      => (l \in h.links <=> ~ AssetPath(l))

(***************************************************************************)
(* C19                                                                      *)
(***************************************************************************)
\* the separator line of the record of url, as the output holds it
Separator(url) == <<"\n\n=== Content from: ">> \o url \o <<" ===\n">>

\* the place in the output where the record of url begins, 0 when the
\* output holds no record of url
RecordIndex(url) ==
  Let(Separator(url), LAMBDA sep :
  Let({i \in 1..(Len(file) - Len(sep) + 1) :
         file[i] = sep[1] /\ SubSeq(file, i, i + Len(sep) - 1) = sep}, LAMBDA at :
    IF at = {} THEN 0 ELSE CHOOSE i \in at : \A j \in at : i <= j))

\* the dispatched URLs the output holds a record of
Recorded == {u \in Range(Dispatched) : RecordIndex(u) > 0}

\* C19: the records are in the output in the order of dispatch, and the
\* record of a page is written before any link collected from the page is
\* fetched: of two URLs with records the one dispatched first has its record
\* first, and a page with text has its record written (and before theirs)
\* when its links have been collected.
C19_RecordsInDispatchOrder ==
  Let(Dispatched, LAMBDA order :
  Let([u \in Range(order) |-> RecordIndex(u)], LAMBDA record :
  Let([u \in Range(order) |-> CHOOSE i \in 1..Len(order) : order[i] = u], LAMBDA place :
    /\ \A u, v \in Range(order) :
         (record[u] > 0 /\ record[v] > 0 /\ place[u] < place[v])
           => record[u] < record[v]
    /\ \A h \in harvested :
         /\ (record[h.url] > 0 \/ Strip(TextOf(h.url)) = <<>>)
         /\ \A l \in h.links \cap Range(order) :
              /\ place[h.url] < place[l]
              /\ record[l] > 0 => record[h.url] < record[l])))

\* a finished run with three records, two of them of pages with a link
\* to a page that has a record
C19_Witness ==
  /\ pc = "done"
  /\ Cardinality(Recorded) >= 3
  /\ \E g, h \in harvested :
       /\ g.url # h.url
       /\ RecordIndex(g.url) > 0 /\ g.links \cap Recorded # {}
       /\ RecordIndex(h.url) > 0 /\ h.links \cap Recorded # {}

====
